---- MODULE Spec2Model ----
(***************************************************************************)
(* Model of the Modal workshop repository: the sentiment API               *)
(* (sentiment_api.py: analyze_sentiment, sentiment_endpoint, health_check, *)
(* batch_sentiment_analysis) and the setup script (modal_setup.py: main    *)
(* and its four steps).  The remote platform, the transformers pipeline    *)
(* and the external commands are the environment: each of their outcomes   *)
(* is an input drawn from a small set.                                     *)
(*                                                                         *)
(* Numbers are decimals [m |-> mantissa, e |-> fractional digits], so      *)
(* [m |-> 15, e |-> 4] is 0.0015.  Strings the code inspects (texts, raw   *)
(* labels) are sequences of one-character strings.                         *)
(***************************************************************************)
EXTENDS Integers, Sequences, FiniteSets, TLC

VARIABLES
    app_name,   \* module-level app_name (sentiment_api.py line 15)
    pc,         \* position of the operation in progress
    op,         \* the operation in progress
    data,       \* request body of sentiment_endpoint
    text,       \* argument of analyze_sentiment
    results,    \* what sentiment_pipeline(text)[0] gave analyze_sentiment
    result,     \* outcome of analyze_sentiment (returned value or exception)
    resp,       \* outcome of the operation in progress
    calls,      \* invocations of analyze_sentiment so far
    calls0,     \* value of calls when the operation in progress began
    pipelines,  \* pipeline(...) constructions so far
    pipelines0, \* value of pipelines when the operation in progress began
    texts,      \* argument of batch_sentiment_analysis
    outs,       \* what the batch pipeline did on each item so far
    steps,      \* setup steps started so far, with their outcomes
    exitcode    \* exit status of the setup script (NotExited while running)

vars == <<app_name, pc, op, data, text, results, result, resp, calls, calls0,
          pipelines, pipelines0, texts, outs, steps, exitcode>>

----------------------------------------------------------------------------
(* Bounds *)

MaxLen == 2
MaxBatch == 2
MaxCalls == 2

----------------------------------------------------------------------------
(* Python values that can sit under "text" in a JSON body *)

Chars == {" ", "a"}

Strings == UNION {[1..n -> Chars] : n \in 0..MaxLen}

Str(s) == [type |-> "str", s |-> s, n |-> 0]
Null == [type |-> "null", s |-> <<>>, n |-> 0]
Num(k) == [type |-> "num", s |-> <<>>, n |-> k]
List(k) == [type |-> "list", s |-> <<>>, n |-> k]
Obj(k) == [type |-> "dict", s |-> <<>>, n |-> k]

TextValues == {Str(s) : s \in Strings}

\* a JSON value: a string, null, the numbers 0 and 5, a list or an object
\* with 0 or 1 members
JsonValues == TextValues \cup {Null, Num(0), Num(5), List(0), List(1), Obj(0), Obj(1)}

\* a request body either has the key "text" or not
Bodies == {[has |-> TRUE, text |-> v] : v \in JsonValues}
              \cup {[has |-> FALSE, text |-> Null]}

\* bool(v)
Truthy(v) ==
    CASE v.type = "str" -> Len(v.s) > 0
      [] v.type = "null" -> FALSE
      [] v.type = "num" -> v.n # 0
      [] OTHER -> v.n > 0

IsWhitespace(c) == c = " "

RECURSIVE LStrip(_)
LStrip(s) ==
    IF s # <<>> /\ IsWhitespace(Head(s)) THEN LStrip(Tail(s)) ELSE s

RECURSIVE RStrip(_)
RStrip(s) ==
    IF s # <<>> /\ IsWhitespace(s[Len(s)])
    THEN RStrip(SubSeq(s, 1, Len(s) - 1))
    ELSE s

\* str.strip()
Strip(s) == RStrip(LStrip(s))

\* data.get("text", "")
Get(d) == IF d.has THEN d.text ELSE Str(<<>>)

\* only str has a strip method
HasStrip(v) == v.type = "str"

ValidateNoStrip(v) == IF ~Truthy(v) THEN "blank" ELSE "ok"

\* line 93, `not text or text.strip() == ""`: "blank" when the condition is
\* true, "ok" when it is false, "raise" when text is truthy and has no strip
\* method (AttributeError)
Validate(v) ==
    IF ~Truthy(v) THEN "blank"
    ELSE IF ~HasStrip(v) THEN "raise"
    ELSE IF Strip(v.s) = <<>> THEN "blank"
    ELSE "ok"

----------------------------------------------------------------------------
(* Outcomes of a call *)

None == [kind |-> "none", val |-> [status |-> "none"]]
Returned(v) == [kind |-> "returned", val |-> v]
Raised(e) == [kind |-> "raised", val |-> [exc |-> e]]

NotExited == 0 - 1

----------------------------------------------------------------------------
(* Decimal numbers and round() *)

Dec(m, e) == [m |-> m, e |-> e]

RECURSIVE Pow(_, _)
Pow(b, n) == IF n = 0 THEN 1 ELSE b * Pow(b, n - 1)

\* d.m / 10^d.e is a binary fraction, so a float holds it exactly
IsExact(d) == d.m % Pow(5, d.e) = 0

\* x * 100
Times100(d) == Dec(d.m, d.e - 2)

\* round(x, nd) for the float nearest to d, d having more than nd digits.
\* Off a tie the result is the nearest nd-digit decimal.  On a tie that the
\* float holds exactly, round() rounds half to even.  Any other tie is not
\* the float's value: the float lies a little above or below it, and the
\* result is the neighbour on that side (round(0.0015, 3) is 0.002 and
\* round(0.0015 * 100, 1) is 0.1), so both neighbours are possible.
PyRound(d, nd, exact) ==
    LET div == Pow(10, d.e - nd)
        q == d.m \div div
        r == d.m % div
    IN  IF 2 * r < div THEN {Dec(q, nd)}
        ELSE IF 2 * r > div THEN {Dec(q + 1, nd)}
        ELSE IF exact THEN {Dec(IF q % 2 = 0 THEN q ELSE q + 1, nd)}
        ELSE {Dec(q, nd), Dec(q + 1, nd)}

RoundScore2(score) == PyRound(score, 2, IsExact(score))

\* round(score, 3), lines 70 and 132
RoundScore(score) == PyRound(score, 3, IsExact(score))

\* round(score * 100, 1), line 71
RoundPercent(score) == PyRound(Times100(score), 1, IsExact(score))

\* f"{round(score * 100, 1)}%", line 71
Confidence(p) == [num |-> p, suffix |-> "%"]

----------------------------------------------------------------------------
(* Raw labels and the label map *)

Upper == <<"A", "B", "C", "D", "E", "F", "G", "H", "I", "J", "K", "L", "M",
           "N", "O", "P", "Q", "R", "S", "T", "U", "V", "W", "X", "Y", "Z">>

Lowercase == <<"a", "b", "c", "d", "e", "f", "g", "h", "i", "j", "k", "l", "m",
               "n", "o", "p", "q", "r", "s", "t", "u", "v", "w", "x", "y", "z">>

LowerChar(c) ==
    IF \E i \in 1..Len(Upper) : Upper[i] = c
    THEN Lowercase[CHOOSE i \in 1..Len(Upper) : Upper[i] = c]
    ELSE c

\* str.lower()
Lower(s) == [i \in 1..Len(s) |-> LowerChar(s[i])]

LABEL_0 == <<"L", "A", "B", "E", "L", "_", "0">>
LABEL_1 == <<"L", "A", "B", "E", "L", "_", "1">>
LABEL_2 == <<"L", "A", "B", "E", "L", "_", "2">>
negative == <<"n", "e", "g", "a", "t", "i", "v", "e">>
neutral == <<"n", "e", "u", "t", "r", "a", "l">>
positive == <<"p", "o", "s", "i", "t", "i", "v", "e">>
NEGATIVE == <<"N", "E", "G", "A", "T", "I", "V", "E">>
NEUTRAL == <<"N", "E", "U", "T", "R", "A", "L">>
POSITIVE == <<"P", "O", "S", "I", "T", "I", "V", "E">>
Negative == <<"N", "e", "g", "a", "t", "i", "v", "e">>
Neutral == <<"N", "e", "u", "t", "r", "a", "l">>
Positive == <<"P", "o", "s", "i", "t", "i", "v", "e">>
Label_2 == <<"L", "a", "b", "e", "l", "_", "2">>
mixed == <<"m", "i", "x", "e", "d">>

\* the glyphs of lines 57-65, by name
label_map ==
    (LABEL_0 :> [label |-> Negative, emoji |-> "disappointed"]) @@
    (LABEL_1 :> [label |-> Neutral, emoji |-> "neutral_face"]) @@
    (LABEL_2 :> [label |-> Positive, emoji |-> "smiling"]) @@
    (negative :> [label |-> Negative, emoji |-> "disappointed"]) @@
    (neutral :> [label |-> Neutral, emoji |-> "neutral_face"]) @@
    (positive :> [label |-> Positive, emoji |-> "smiling"])

\* label_map.get(label.lower(), {'label': label, 'emoji': thinking}), line 65
Mapped(label) ==
    IF Lower(label) \in DOMAIN label_map
    THEN label_map[Lower(label)]
    ELSE [label |-> label, emoji |-> "thinking"]

\* the label lists a classifier version can give, one label per class
Schemes == {<<LABEL_0, LABEL_1, LABEL_2>>,
            <<negative, neutral, positive>>,
            <<NEGATIVE, NEUTRAL, POSITIVE>>,
            <<Negative, mixed, Label_2>>}

\* class scores, in [0,1] with four digits: 0.0015 and 0.9995 are ties a
\* float cannot hold, 0.0625 is a tie a float holds exactly, 0.3336 is no tie
Scores == {Dec(15, 4), Dec(625, 4), Dec(3336, 4), Dec(9995, 4)}

\* what sentiment_pipeline(text) can do at line 48: raise, or give the
\* all-classes score list
PipelineOutcomes ==
    {[raises |-> TRUE, results |-> <<>>]} \cup
    {[raises |-> FALSE,
      results |-> [i \in 1..3 |-> [label |-> sch[i], score |-> sc[i]]]] :
        sch \in Schemes, sc \in [1..3 -> Scores]}

\* max(results, key=lambda x: x['score']), line 51: the first of the maxima
Top(rs) ==
    rs[CHOOSE i \in 1..Len(rs) :
          /\ \A j \in 1..Len(rs) : rs[j].score.m <= rs[i].score.m
          /\ \A j \in 1..(i - 1) : rs[j].score.m < rs[i].score.m]

\* the values analyze_sentiment can return at lines 67-74
SuccessResults(t, rs) ==
    LET top == Top(rs)
        mapped == Mapped(top.label)
    IN  {[text |-> t, label |-> mapped.label, score |-> s,
          confidence |-> Confidence(p), emoji |-> mapped.emoji,
          status |-> "success"] :
            s \in RoundScore(top.score), p \in RoundPercent(top.score)}

\* the value analyze_sentiment returns at lines 77-81
ErrorResult(t, msg) == [text |-> t, error |-> msg, status |-> "error"]

----------------------------------------------------------------------------
(* Batch analysis *)

\* the texts a batch is made of
BatchItems == {Str(<<"a">>), Str(<<" ">>), Null}

BatchInputs == UNION {[1..n -> BatchItems] : n \in 0..MaxBatch}

\* what the default pipeline can do on one item at line 128: raise, or give
\* its single top label with its score
BatchOutcomes ==
    {[raises |-> TRUE, label |-> <<>>, score |-> Dec(0, 4)]} \cup
    {[raises |-> FALSE, label |-> l, score |-> sc] :
        l \in {NEGATIVE, POSITIVE}, sc \in {Dec(15, 4), Dec(9996, 4)}}

BatchStepDropFailed(rs, t, out) ==
    IF out.raises THEN {rs}
    ELSE {Append(rs, [text |-> t, label |-> out.label, score |-> s,
                      status |-> "success"]) : s \in RoundScore(out.score)}

\* one iteration of the loop of lines 126-140: the lists results can be after it
BatchStep(rs, t, out) ==
    IF out.raises
    THEN {Append(rs, [text |-> t, error |-> "inference failed",
                      status |-> "error"])}
    ELSE {Append(rs, [text |-> t, label |-> out.label, score |-> s,
                      status |-> "success"]) : s \in RoundScore(out.score)}

----------------------------------------------------------------------------
(* The setup script *)

StepNames == <<"install", "load", "auth", "verify">>

Failed(out) == out \in {"False", "raised"}

MainNextNoShortCircuit(name, out) ==
    IF out = "raised" THEN [pc |-> "main_ret", resp |-> Raised(name)]
    ELSE IF name = "install"
    THEN IF out = "True" THEN [pc |-> "step2", resp |-> None]
         ELSE [pc |-> "main_ret", resp |-> Returned(FALSE)]
    ELSE IF name = "load" THEN [pc |-> "step3", resp |-> None]
    ELSE IF name = "auth" THEN [pc |-> "step4", resp |-> None]
    ELSE IF out = "True" THEN [pc |-> "main_ret", resp |-> Returned(TRUE)]
         ELSE [pc |-> "main_ret", resp |-> Returned(FALSE)]

\* where main (lines 87-126) goes after a step gave out: the next step, or
\* its return; an exception no step catches leaves main at once
MainNext(name, out) ==
    IF out = "raised" THEN [pc |-> "main_ret", resp |-> Raised(name)]
    ELSE IF name = "install"
    THEN IF out = "True" THEN [pc |-> "step2", resp |-> None]
         ELSE [pc |-> "main_ret", resp |-> Returned(FALSE)]
    ELSE IF name = "load" THEN [pc |-> "step3", resp |-> None]
    ELSE IF name = "auth"
    THEN IF out = "True" THEN [pc |-> "step4", resp |-> None]
         ELSE [pc |-> "main_ret", resp |-> Returned(FALSE)]
    ELSE IF out = "True" THEN [pc |-> "main_ret", resp |-> Returned(TRUE)]
         ELSE [pc |-> "main_ret", resp |-> Returned(FALSE)]

\* check_modal_installation, lines 12-26: modal imports, or pip installs it,
\* or pip fails and check_call raises CalledProcessError
check_modal_installation(env) ==
    IF env \in {"installed", "pip_ok"} THEN "True" ELSE "raised"

\* load_environment, lines 73-85: returns None with or without .env.local
load_environment(env) == "None"

\* setup_modal_auth, lines 28-47: `modal setup` exits 0, or exits non-zero
\* (CalledProcessError, caught), or cannot be launched (FileNotFoundError,
\* which no except clause names)
setup_modal_auth(env) ==
    IF env = "exit_zero" THEN "True"
    ELSE IF env = "exit_nonzero" THEN "False"
    ELSE "raised"

\* verify_modal_connection, lines 49-71: any Exception is caught
verify_modal_connection(env) ==
    IF env = "accepted" THEN "True" ELSE "False"

----------------------------------------------------------------------------
(* The static payload of health_check *)

HealthPayloadAppName ==
    [status |-> "healthy", service |-> app_name,
     message |-> "Ready to analyze sentiment! Send POST requests to /sentiment_endpoint"]

\* lines 108-112
HealthPayload ==
    [status |-> "healthy", service |-> "sentiment-analyzer",
     message |-> "Ready to analyze sentiment! Send POST requests to /sentiment_endpoint"]

\* os.getenv("SENTIMENT_APP_NAME", "sentiment-analyzer"), line 15
AppNames == {"sentiment-analyzer", "custom-app"}

----------------------------------------------------------------------------
(* Initial state: the module is loaded, nothing has been called *)

Init ==
    /\ app_name \in AppNames
    /\ pc = "idle"
    /\ op = "none"
    /\ data = [has |-> FALSE, text |-> Null]
    /\ text = Null
    /\ results = <<>>
    /\ result = None
    /\ resp = None
    /\ calls = 0
    /\ calls0 = 0
    /\ pipelines = 0
    /\ pipelines0 = 0
    /\ texts = <<>>
    /\ outs = <<>>
    /\ steps = <<>>
    /\ exitcode = NotExited

service == <<data, text, results, result>>
batch == <<texts, outs>>
script == <<steps, exitcode>>
counters == <<calls, calls0, pipelines, pipelines0>>

----------------------------------------------------------------------------
(* sentiment_api.py *)

\* sentiment_endpoint, lines 86-100: validate, then call
\* analyze_sentiment.remote(text)
SentimentEndpoint(d) ==
    /\ pc = "idle"
    /\ calls < MaxCalls
    /\ op' = "sentiment_endpoint"
    /\ data' = d
    /\ LET v == Validate(Get(d))
       IN  CASE v = "blank" ->
                 /\ resp' = Returned([error |-> "Please provide text to analyze",
                                      status |-> "error"])
                 /\ pc' = "done"
                 /\ UNCHANGED <<text, calls>>
             [] v = "raise" ->
                 /\ resp' = Raised("AttributeError")
                 /\ pc' = "done"
                 /\ UNCHANGED <<text, calls>>
             [] OTHER ->
                 /\ text' = Get(d)
                 /\ calls' = calls + 1
                 /\ pc' = "remote"
                 /\ UNCHANGED resp
    /\ UNCHANGED <<app_name, results, result, calls0, pipelines, pipelines0,
                   batch, script>>

\* a client of the deployed function calls analyze_sentiment.remote(t), as
\* test_local does at line 157
InvokeAnalyze(t) ==
    /\ pc = "idle"
    /\ calls < MaxCalls
    /\ op' = "analyze_sentiment"
    /\ text' = t
    /\ calls' = calls + 1
    /\ pc' = "remote"
    /\ UNCHANGED <<app_name, data, results, result, resp, calls0, pipelines,
                   pipelines0, batch, script>>

\* analyze_sentiment, lines 37-44: the pipeline is constructed, outside the
\* try; its exception leaves the function
AnalyzeLoad(loads) ==
    /\ pc = "remote"
    /\ pipelines' = pipelines + 1
    /\ IF loads
       THEN pc' = "infer" /\ UNCHANGED result
       ELSE pc' = "returning" /\ result' = Raised("OSError")
    /\ UNCHANGED <<app_name, op, data, text, results, resp, calls, calls0,
                   pipelines0, batch, script>>

\* analyze_sentiment, lines 46-81: inference and the mapping of its result,
\* inside the try
AnalyzeInfer(out) ==
    /\ pc = "infer"
    /\ results' = out.results
    /\ IF out.raises
       THEN result' = Returned(ErrorResult(text, "inference failed"))
       ELSE \E r \in SuccessResults(text, out.results) : result' = Returned(r)
    /\ pc' = "returning"
    /\ UNCHANGED <<app_name, op, data, text, resp, counters, batch, script>>

\* sentiment_endpoint, lines 100-101: the remote call's value is returned,
\* its exception is not caught
EndpointReturn ==
    /\ pc = "returning"
    /\ op = "sentiment_endpoint"
    /\ resp' = result
    /\ pc' = "done"
    /\ UNCHANGED <<app_name, op, service, counters, batch, script>>

\* the direct caller gets the value or the exception
InvokeReturn ==
    /\ pc = "returning"
    /\ op = "analyze_sentiment"
    /\ resp' = result
    /\ pc' = "done"
    /\ UNCHANGED <<app_name, op, service, counters, batch, script>>

\* health_check, lines 106-112
HealthCheck ==
    /\ pc = "idle"
    /\ op' = "health_check"
    /\ resp' = Returned(HealthPayload)
    /\ pc' = "done"
    /\ UNCHANGED <<app_name, service, counters, batch, script>>

\* batch_sentiment_analysis, lines 116-124: the pipeline is constructed
\* before the loop, outside any try
BatchStart(ts, loads) ==
    /\ pc = "idle"
    /\ pipelines < MaxCalls
    /\ op' = "batch_sentiment_analysis"
    /\ texts' = ts
    /\ pipelines' = pipelines + 1
    /\ IF loads
       THEN pc' = "batch_loop" /\ UNCHANGED resp
       ELSE pc' = "done" /\ resp' = Raised("OSError")
    /\ UNCHANGED <<app_name, service, calls, calls0, pipelines0, outs, script>>

\* batch_sentiment_analysis, lines 126-140: one iteration of the loop
BatchItem(out) ==
    /\ pc = "batch_loop"
    /\ Len(outs) < Len(texts)
    /\ \E rs \in BatchStep(results, texts[Len(outs) + 1], out) : results' = rs
    /\ outs' = Append(outs, out)
    /\ UNCHANGED <<app_name, pc, op, data, text, result, resp, counters, texts,
                   script>>

\* batch_sentiment_analysis, line 142
BatchReturn ==
    /\ pc = "batch_loop"
    /\ Len(outs) = Len(texts)
    /\ resp' = Returned(results)
    /\ pc' = "done"
    /\ UNCHANGED <<app_name, op, service, counters, batch, script>>

----------------------------------------------------------------------------
(* modal_setup.py *)

Step(name, out) ==
    /\ steps' = Append(steps, [name |-> name, out |-> out])
    /\ pc' = MainNext(name, out).pc
    /\ resp' = MainNext(name, out).resp
    /\ UNCHANGED <<app_name, service, counters, batch, exitcode>>

\* main, lines 96-100
Step1(env) ==
    /\ pc = "idle"
    /\ op' = "main"
    /\ Step("install", check_modal_installation(env))

\* main, lines 102-104
Step2(env) ==
    /\ pc = "step2"
    /\ UNCHANGED op
    /\ Step("load", load_environment(env))

\* main, lines 106-110
Step3(env) ==
    /\ pc = "step3"
    /\ UNCHANGED op
    /\ Step("auth", setup_modal_auth(env))

\* main, lines 112-126
Step4(env) ==
    /\ pc = "step4"
    /\ UNCHANGED op
    /\ Step("verify", verify_modal_connection(env))

\* lines 128-135: sys.exit(1) when main returned False; an exception that
\* left main ends the interpreter with status 1; otherwise status 0
ScriptExit ==
    /\ pc = "main_ret"
    /\ exitcode' = IF resp = Returned(TRUE) THEN 0 ELSE 1
    /\ pc' = "done"
    /\ UNCHANGED <<app_name, op, service, resp, counters, batch, steps>>

----------------------------------------------------------------------------

\* the operation is over; the next one starts from the module's state
NextRequest ==
    /\ pc = "done"
    /\ pc' = "idle"
    /\ op' = "none"
    /\ data' = [has |-> FALSE, text |-> Null]
    /\ text' = Null
    /\ results' = <<>>
    /\ result' = None
    /\ resp' = None
    /\ calls0' = calls
    /\ pipelines0' = pipelines
    /\ texts' = <<>>
    /\ outs' = <<>>
    /\ steps' = <<>>
    /\ exitcode' = NotExited
    /\ UNCHANGED <<app_name, calls, pipelines>>

Next ==
    \/ \E d \in Bodies : SentimentEndpoint(d)
    \/ \E t \in TextValues : InvokeAnalyze(t)
    \/ \E loads \in BOOLEAN : AnalyzeLoad(loads)
    \/ \E out \in PipelineOutcomes : AnalyzeInfer(out)
    \/ EndpointReturn
    \/ InvokeReturn
    \/ HealthCheck
    \/ \E ts \in BatchInputs, loads \in BOOLEAN : BatchStart(ts, loads)
    \/ \E out \in BatchOutcomes : BatchItem(out)
    \/ BatchReturn
    \/ \E env \in {"installed", "pip_ok", "pip_fail"} : Step1(env)
    \/ \E env \in {"file", "no_file"} : Step2(env)
    \/ \E env \in {"exit_zero", "exit_nonzero", "not_found"} : Step3(env)
    \/ \E env \in {"accepted", "exception"} : Step4(env)
    \/ ScriptExit
    \/ NextRequest

Spec == Init /\ [][Next]_vars

----------------------------------------------------------------------------
(* Claims *)

AllWhitespace(s) == \A i \in 1..Len(s) : s[i] = " "

\* the body's "text" is missing, empty or whitespace-only
BlankBody(d) == ~d.has \/ (d.text.type = "str" /\ AllWhitespace(d.text.s))

\* the body's "text" is a string that is not blank
NonBlankBody(d) == d.has /\ d.text.type = "str" /\ ~AllWhitespace(d.text.s)

\* analyze_sentiment was invoked and has ended
AnalysisEnded == result # None

\* C1: analyze_sentiment never raises: whenever a step fails (pipeline
\* construction or inference) it returns a result with status "error", an
\* error message and no label or score.
C1_NeverRaises ==
    AnalysisEnded =>
        /\ result.kind = "returned"
        /\ results = <<>> =>
              /\ result.val.status = "error"
              /\ "error" \in DOMAIN result.val
              /\ DOMAIN result.val \cap {"label", "score"} = {}

\* C2: a body whose "text" is missing, empty or whitespace-only gets exactly
\* {"error": <non-empty string>, "status": "error"}, and neither the analysis
\* function nor a pipeline is used during the request.
C2_BlankRejected ==
    (op = "sentiment_endpoint" /\ BlankBody(data)) =>
        /\ pc = "done"
        /\ resp.kind = "returned"
        /\ DOMAIN resp.val = {"error", "status"}
        /\ resp.val.status = "error"
        /\ resp.val.error # ""
        /\ calls = calls0
        /\ pipelines = pipelines0
        /\ result = None

C2_Witness ==
    /\ op = "sentiment_endpoint"
    /\ pc = "done"
    /\ data = [has |-> TRUE, text |-> Str(<<" ", " ">>)]
    /\ resp.kind = "returned"

\* C3: a body whose "text" is not blank makes sentiment_endpoint invoke the
\* analysis function exactly once, with the untrimmed text, and return that
\* invocation's result unchanged, be its status "success" or "error".
C3_DelegatesOnce ==
    (op = "sentiment_endpoint" /\ NonBlankBody(data) /\ pc = "done") =>
        /\ calls = calls0 + 1
        /\ text = data.text
        /\ resp.kind = "returned"
        /\ resp = result
        /\ resp.val.status \in {"success", "error"}

\* some key of the label map is the raw label up to case
KeysFor(raw) == {k \in DOMAIN label_map : Lower(k) = Lower(raw)}

\* C4: the label map lookup is case-insensitive: a raw top label that is a
\* key of the map in some casing gets that key's display label and glyph,
\* and only a raw label with no entry in any casing gets the fallback.
C4_CaseInsensitive ==
    (AnalysisEnded /\ result.kind = "returned" /\ result.val.status = "success") =>
        LET raw == Top(results).label
        IN  IF KeysFor(raw) # {}
            THEN \A k \in KeysFor(raw) :
                    /\ result.val.label = label_map[k].label
                    /\ result.val.emoji = label_map[k].emoji
            ELSE /\ result.val.label = raw
                 /\ result.val.emoji = "thinking"

SomeStepFailed == \E i \in 1..Len(steps) : Failed(steps[i].out)

StepOut(name) ==
    IF \E i \in 1..Len(steps) : steps[i].name = name
    THEN steps[CHOOSE i \in 1..Len(steps) : steps[i].name = name].out
    ELSE "not run"

\* C6: the setup steps run in the order install, load, auth, verify, each at
\* most once; no step starts after a failed one; main returns True only when
\* install, auth and verify succeeded; the exit status is non-zero exactly
\* when some step failed.
C6_SetupShortCircuits ==
    /\ Len(steps) <= Len(StepNames)
    /\ \A i \in 1..Len(steps) : steps[i].name = StepNames[i]
    /\ \A i \in 1..(Len(steps) - 1) : ~Failed(steps[i].out)
    /\ (op = "main" /\ resp = Returned(TRUE)) =>
          /\ StepOut("install") = "True"
          /\ StepOut("auth") = "True"
          /\ StepOut("verify") = "True"
    /\ (op = "main" /\ pc = "done") =>
          /\ exitcode # NotExited
          /\ (exitcode # 0) <=> SomeStepFailed

C6_Witness ==
    /\ op = "main"
    /\ pc = "done"
    /\ exitcode = 1
    /\ Len(steps) = 3
    /\ steps[3].out = "False"

Abs(x) == IF x < 0 THEN 0 - x ELSE x

\* the largest class score is mx
IsMaxScore(mx) ==
    /\ \E j \in 1..Len(results) : results[j].score = mx
    /\ \A j \in 1..Len(results) : results[j].score.m <= mx.m

C8_HealthStatic ==
    op = "health_check" =>
        /\ resp = Returned([status |-> "healthy",
                            service |-> "sentiment-analyzer",
                            message |-> "Ready to analyze sentiment! Send POST requests to /sentiment_endpoint"])
        /\ calls = calls0
        /\ pipelines = pipelines0
        /\ result = None

C8_Witness ==
    /\ op = "health_check"
    /\ app_name = "custom-app"
    /\ calls > 0
    /\ pipelines > calls
    /\ resp.kind = "returned"

\* C9: every failure of the authentication step makes setup_modal_auth
\* return False, so main returns False without verifying; no exception
\* leaves the authentication or the verification step.
C9_AuthFailureReported ==
    /\ StepOut("auth") # "raised"
    /\ StepOut("verify") # "raised"
    /\ (pc \in {"main_ret", "done"} /\ StepOut("auth") \in {"False", "raised"}) =>
          /\ resp = Returned(FALSE)
          /\ StepOut("verify") = "not run"

\* C10: validation in sentiment_endpoint never raises: whatever sits under
\* "text", the endpoint returns the structured error or invokes the
\* analysis function.
C10_ValidationNeverRaises ==
    (op = "sentiment_endpoint" /\ pc = "done" /\ calls = calls0) =>
        /\ resp.kind = "returned"
        /\ DOMAIN resp.val = {"error", "status"}
        /\ resp.val.status = "error"

====
